---- MODULE Spec2Model ----
(***************************************************************************)
(* Model of the Garbler side of the two-party garbled-circuit protocol     *)
(* (circuit/garbler.go) together with the collaborators it talks to: the   *)
(* circuit garbling, the oblivious-transfer sender, the framed transport   *)
(* and the Evaluator peer; of one garbled gate on its own; and of the      *)
(* basic blocks and variable bindings of the compiler's SSA form           *)
(* (compiler/ssa/block.go).  Each part has its own specification: Spec     *)
(* and FairSpec for a session, GateSpec, BlockSpec, BindSpec, MergeSpec    *)
(* and ValueSpec.                                                          *)
(***************************************************************************)
EXTENDS Integers, Sequences, FiniteSets, TLC

(***************************************************************************)
(* Bounds of the model.                                                    *)
(***************************************************************************)
\* width of a wire label in bits (the real width is 128)
LabelBits == 4
\* number of opcodes an arbitrary peer sends in one session
MaxOps == 3
\* session key seeds
NumKeys == 2
\* largest gate id of a gate garbled on its own
MaxGateId == 1
\* number of basic blocks
NumBlocks == 3
\* number of Next / Branch links set among the blocks
MaxLinks == 3
\* largest number of instructions of one block
MaxInstr == 2
\* largest scope of a variable
MaxScope == 1
\* largest number of bindings held
MaxBindings == 3
\* largest number of bindings held by the two branches of an if together
MaxBranchBindings == 3
\* number of Select values
NumSelects == 3
\* number of Select.Value calls
MaxValueCalls == 3

(***************************************************************************)
(* Protocol constants.                                                     *)
(***************************************************************************)
OP_OT == 1
OP_RESULT == 2

LabelMod == 2 ^ LabelBits
Keys == 1 .. NumKeys

(***************************************************************************)
(* Integer helpers (math/big).                                             *)
(***************************************************************************)
RECURSIVE Xor(_, _)
Xor(a, b) ==
    IF a = 0 THEN b
    ELSE IF b = 0 THEN a
    ELSE ((a + b) % 2) + 2 * Xor(a \div 2, b \div 2)

\* big.Int.Bit
Bit(n, i) == (n \div (2 ^ i)) % 2

\* big.Int.SetBit
SetBit(n, i, b) == n - Bit(n, i) * (2 ^ i) + b * (2 ^ i)

\* big.Int.Bytes: big-endian bytes, no leading zero byte, empty for 0
RECURSIVE Bytes(_)
Bytes(n) == IF n = 0 THEN << >> ELSE Append(Bytes(n \div 256), n % 256)

\* big.Int.SetBytes
RECURSIVE SetBytes(_)
SetBytes(bs) ==
    IF bs = << >> THEN 0
    ELSE 256 * SetBytes(SubSeq(bs, 1, Len(bs) - 1)) + bs[Len(bs)]

RECURSIVE SumSeq(_)
SumSeq(s) == IF s = << >> THEN 0 ELSE s[1] + SumSeq(Tail(s))

(***************************************************************************)
(* Circuits.  N1, N2, N3 are lists of group widths; wires [0, |N1|) are    *)
(* the Garbler's inputs, [|N1|, |N1|+|N2|) the Evaluator's inputs and the  *)
(* last |N3| wires the outputs.  A gate is [op, a, b, out].                *)
(***************************************************************************)
IOSize(io) == SumSeq(io)

Gate(op, a, b, out) == [op |-> op, a |-> a, b |-> b, out |-> out]

\* main(a, b uint1) uint1 { return a & b }
CircAnd ==
    [N1 |-> <<1>>, N2 |-> <<1>>, N3 |-> <<1>>, NumWires |-> 3,
     Gates |-> << Gate("AND", 0, 1, 2) >>]

\* one-bit adder with carry: sum and carry in one two-bit output
CircAdd ==
    [N1 |-> <<1>>, N2 |-> <<1>>, N3 |-> <<2>>, NumWires |-> 4,
     Gates |-> << Gate("XOR", 0, 1, 2), Gate("AND", 0, 1, 3) >>]

\* two Garbler groups, a two-bit Evaluator group, an internal wire and
\* two one-bit outputs
CircMix ==
    [N1 |-> <<1, 1>>, N2 |-> <<2>>, N3 |-> <<1, 1>>, NumWires |-> 7,
     Gates |-> << Gate("OR", 0, 1, 4), Gate("XOR", 4, 2, 5),
                  Gate("AND", 4, 3, 6) >>]

Circuits == {CircAnd, CircAdd, CircMix}

\* plaintext value of a gate
GateOp(op, x, y) ==
    CASE op = "XOR" -> (x + y) % 2
      [] op = "AND" -> x * y
      [] op = "OR"  -> IF x + y > 0 THEN 1 ELSE 0

\* the bit of input group list `vals` (one integer per group of widths
\* `io`) that lands on position w of the partition; a missing group is 0
RECURSIVE InputBit(_, _, _)
InputBit(io, vals, w) ==
    IF io = << >> THEN 0
    ELSE IF w < io[1]
         THEN (IF vals # << >> THEN Bit(vals[1], w) ELSE 0)
         ELSE InputBit(Tail(io), IF vals = << >> THEN << >> ELSE Tail(vals),
                       w - io[1])

\* IO.Split: slice the packed little-endian integer per output group
RECURSIVE Split(_, _)
Split(io, n) ==
    IF io = << >> THEN << >>
    ELSE << n % (2 ^ io[1]) >> \o Split(Tail(io), n \div (2 ^ io[1]))

\* plaintext evaluation of the circuit: wire values after the first k gates
RECURSIVE PlainWires(_, _, _, _)
PlainWires(circ, in1, in2, k) ==
    IF k = 0
    THEN [w \in 0 .. circ.NumWires - 1 |->
            IF w < IOSize(circ.N1) THEN InputBit(circ.N1, in1, w)
            ELSE IF w < IOSize(circ.N1) + IOSize(circ.N2)
                 THEN InputBit(circ.N2, in2, w - IOSize(circ.N1))
                 ELSE 0]
    ELSE LET prev == PlainWires(circ, in1, in2, k - 1)
             g == circ.Gates[k]
         IN  [prev EXCEPT ![g.out] = GateOp(g.op, prev[g.a], prev[g.b])]

RECURSIVE PackBits(_, _, _)
PackBits(vals, first, n) ==
    IF n = 0 THEN 0 ELSE vals[first] + 2 * PackBits(vals, first + 1, n - 1)

\* Circuit.Compute: the plaintext function of the circuit
Compute(circ, in1, in2) ==
    LET vals == PlainWires(circ, in1, in2, Len(circ.Gates))
    IN  Split(circ.N3,
              PackBits(vals, circ.NumWires - IOSize(circ.N3), IOSize(circ.N3)))

(***************************************************************************)
(* Garbling: Free-XOR, point-and-permute, row reduction.                   *)
(***************************************************************************)
\* permute tag of a label
Tag(l) == l % 2

\* the PRF that encrypts table rows
H(g, a, b) == (g * 11 + a * 7 + b * 13 + 5) % LabelMod

\* the global offset, with tag 1
Delta(key) == (2 * (key * 3) + 1) % LabelMod

\* label sampled for an input wire from the session key
RandomLabel(key, w) == (key * 5 + w * 3 + 1) % LabelMod

\* the two labels of a wire differ by the global offset
WireD(l0, delta) == [Label0 |-> l0, Label1 |-> Xor(l0, delta)]
Wire(l0, key) == WireD(l0, Delta(key))

\* the label of the wire that carries permute tag t, and its logical value
TagLabel(wire, t) == IF Tag(wire.Label0) = t THEN wire.Label0 ELSE wire.Label1
TagValue(wire, t) == IF Tag(wire.Label0) = t THEN 0 ELSE 1
ValueLabel(wire, v) == IF v = 0 THEN wire.Label0 ELSE wire.Label1

\* the output wire of gate g with id `id`: free for XOR; otherwise the
\* label of the value at row (0, 0) is the PRF of the two tag-0 labels, so
\* that this row needs no ciphertext
GarbledOut(g, id, wa, wb, delta) ==
    IF g.op = "XOR"
    THEN WireD(Xor(wa.Label0, wb.Label0), delta)
    ELSE LET h == H(id, TagLabel(wa, 0), TagLabel(wb, 0))
             v == GateOp(g.op, TagValue(wa, 0), TagValue(wb, 0))
         IN  WireD(IF v = 0 THEN h ELSE Xor(h, delta), delta)

\* wire labels after garbling the first k gates
RECURSIVE GarbleWires(_, _, _)
GarbleWires(circ, key, k) ==
    IF k = 0
    THEN [w \in 0 .. circ.NumWires - 1 |-> Wire(RandomLabel(key, w), key)]
    ELSE LET prev == GarbleWires(circ, key, k - 1)
             g == circ.Gates[k]
         IN  [prev EXCEPT ![g.out] =
                 GarbledOut(g, k - 1, prev[g.a], prev[g.b], Delta(key))]

\* the three transmitted rows of a non-free gate; none for XOR
GarbleTable(circ, wires, id) ==
    LET g == circ.Gates[id + 1]
        wa == wires[g.a]
        wb == wires[g.b]
        Row(i, j) ==
            Xor(H(id, TagLabel(wa, i), TagLabel(wb, j)),
                ValueLabel(wires[g.out],
                           GateOp(g.op, TagValue(wa, i), TagValue(wb, j))))
    IN  IF g.op = "XOR" THEN << >>
        ELSE << Row(0, 1), Row(1, 0), Row(1, 1) >>

\* Circuit.Garble
Garble(circ, key) ==
    LET wires == GarbleWires(circ, key, Len(circ.Gates))
    IN  [Wires |-> wires,
         Gates |-> [id \in 0 .. Len(circ.Gates) - 1 |->
                       GarbleTable(circ, wires, id)]]

\* variant: the row is looked up with the two tags exchanged
EvalGate_TagsExchanged(g, id, rows, la, lb) ==
    LET row == 2 * Tag(lb) + Tag(la)
    IN  IF g.op = "XOR" THEN Xor(la, lb)
        ELSE IF row = 0 THEN H(id, la, lb)
        ELSE Xor(rows[row], H(id, la, lb))

\* evaluation of one gate from the labels held for its two inputs: row 0
\* is the implicit all-zero ciphertext, the other rows are transmitted
EvalGate(g, id, rows, la, lb) ==
    LET row == 2 * Tag(la) + Tag(lb)
    IN  IF g.op = "XOR" THEN Xor(la, lb)
        ELSE IF row = 0 THEN H(id, la, lb)
        ELSE Xor(rows[row], H(id, la, lb))

\* evaluation of the garbled circuit: one label per wire after k gates,
\* given the labels of the input wires (-1 where no label is held)
RECURSIVE EvalWires(_, _, _, _)
EvalWires(circ, tables, inLabels, k) ==
    IF k = 0
    THEN [w \in 0 .. circ.NumWires - 1 |->
            IF w < Len(inLabels) THEN inLabels[w + 1] ELSE -1]
    ELSE LET prev == EvalWires(circ, tables, inLabels, k - 1)
             g == circ.Gates[k]
         IN  [prev EXCEPT ![g.out] =
                 EvalGate(g, k - 1, tables[k - 1], prev[g.a], prev[g.b])]


(***************************************************************************)
(* Oblivious transfer (ot.Sender, ot.SenderXfer, the Receiver role).       *)
(* The RSA arithmetic is abstracted: v names the random message it was     *)
(* built from, and a masked message opens only under the matching one.     *)
(***************************************************************************)
\* variant: the bit index of the request selects the wire
NewTransferWire_ByBit(circ, round, bit) == bit

\* Sender.NewTransfer: the wire of the next round, by position
NewTransferWire(circ, round, bit) == IOSize(circ.N1) + round

\* Sender.NewTransfer fails for an index outside the Evaluator's input
\* wires and when every Evaluator input wire has had its round
NewTransferErr(circ, round, bit) ==
    \/ bit < IOSize(circ.N1)
    \/ bit >= IOSize(circ.N1) + IOSize(circ.N2)
    \/ round >= IOSize(circ.N2)

\* SenderXfer.RandomMessages
RandomMessages == << "x0", "x1" >>

\* Receiver: v = x_b + k^e for choice bit b
ReceiverV(b) == IF b = 0 THEN "x0" ELSE "x1"

\* SenderXfer.Messages fails when v is not a residue it can unblind
MessagesErr(v) == v \notin {"x0", "x1"}

\* variant: both masked messages open for the receiver
Messages_BothOpen(wire, w, v) ==
    << [kind |-> "m", w |-> w, v |-> wire.Label0, open |-> TRUE],
       [kind |-> "m", w |-> w, v |-> wire.Label1, open |-> TRUE] >>

\* SenderXfer.Messages: m_i' = m_i xor (v - x_i)^d; it opens for the
\* receiver exactly when v was built from x_i
Messages(wire, w, v) ==
    << [kind |-> "m", w |-> w, v |-> wire.Label0, open |-> (v = "x0")],
       [kind |-> "m", w |-> w, v |-> wire.Label1, open |-> (v = "x1")] >>

(***************************************************************************)
(* Frames of the transport.  kind names the protocol field a frame         *)
(* carries; w is the wire or gate it belongs to.                           *)
(***************************************************************************)
Frame(kind, w, v) == [kind |-> kind, w |-> w, v |-> v]

\* the record of one gate: id, row count, rows
RECURSIVE RowFrames(_, _, _)
RowFrames(id, data, i) ==
    IF i > Len(data) THEN << >>
    ELSE << Frame("row", id, data[i]) >> \o RowFrames(id, data, i + 1)

\* variant: the row count of a full table is sent for every gate
TableFrames_CountThree(id, data) ==
    << Frame("gateId", id, id), Frame("rowCount", id, 3) >>
        \o RowFrames(id, data, 1)

TableFrames(id, data) ==
    << Frame("gateId", id, id), Frame("rowCount", id, Len(data)) >>
        \o RowFrames(id, data, 1)

\* variant: the label of the other value is selected
SelectInput_Inverted(circ, wires, inputs, w) ==
    IF InputBit(circ.N1, inputs, w) = 1
    THEN wires[w].Label0 ELSE wires[w].Label1

\* variant: the input bit is not looked at
SelectInput_Label0(circ, wires, inputs, w) == wires[w].Label0

\* the Garbler's own input label of wire w (garbler.go, select our inputs)
SelectInput(circ, wires, inputs, w) ==
    IF InputBit(circ.N1, inputs, w) = 1
    THEN wires[w].Label1 ELSE wires[w].Label0

\* input value lists: one integer per group, each within its width
RECURSIVE InputSeqs(_)
InputSeqs(io) ==
    IF io = << >> THEN { << >> }
    ELSE { << a >> \o r : a \in 0 .. (2 ^ io[1]) - 1, r \in InputSeqs(Tail(io)) }

VARIABLES
    circ,       \* the circuit of the session
    inputs,     \* the Garbler's inputs, one integer per N1 group
    key,        \* the session key seed
    gpc,        \* the Garbler's position in Garbler()
    garbled,    \* result of circ.Garble
    gi,         \* loop index of the current Garbler loop
    wbuf,       \* frames buffered in the bufio writer
    werr,       \* the writer's sticky error
    otRound,    \* transfers started by the sender
    xfer,       \* the current ot.SenderXfer
    result,     \* the result integer being assembled
    retVals,    \* the values Garbler returned
    retErr,     \* the error Garbler returned
    g2e,        \* frames in flight to the Evaluator
    e2g,        \* frames in flight to the Garbler
    closed,     \* the peer has closed the stream
    mode,       \* the peer: "honest" Evaluator or "any" peer
    einputs,    \* the Evaluator's inputs, one integer per N2 group
    epc,        \* the Evaluator's position
    ei,         \* loop index of the Evaluator
    etables,    \* garbled tables the Evaluator has read
    elabels,    \* input labels the Evaluator holds, by wire
    eret,       \* the values the Evaluator returned
    held,       \* pairs <<wire, label>> the peer has been given
    opsSent,    \* opcodes sent by the peer
    otWires,    \* per OP_OT request: the bit index asked and the wire served
                \* (-1 when the request was refused)
    rlabels,    \* the labels read while serving OP_RESULT
    log,        \* the Garbler's transport events, in order
    gt,         \* one gate being garbled and evaluated on its own
    blocks,     \* the basic blocks (ssa.Block), by block
    call,       \* the last SetNext / SetBranch / AddInstr call and its outcome
    ser,        \* the last Serialize call and what it returned
    binds,      \* a Bindings value
    bcall,      \* the last Bindings call: its arguments and what it returned
    fbinds,     \* the Bindings of the false branch of an if
    mg,         \* the Merge calls made and what the last one returned
    sels,       \* the Select values (phi bindings), by reference
    gen,        \* the generator's count of anonymous variables
    vcall       \* the last Select.Value call and what it returned

gvars == << circ, inputs, key, gpc, garbled, gi, wbuf, werr, otRound, xfer,
            result, retVals, retErr >>
evars == << mode, einputs, epc, ei, etables, elabels, eret, held, opsSent >>
\* the variables of one protocol session
svars == << circ, inputs, key, gpc, garbled, gi, wbuf, werr, otRound, xfer,
            result, retVals, retErr, g2e, e2g, closed, mode, einputs, epc,
            ei, etables, elabels, eret, held, opsSent, otWires, rlabels,
            log >>
\* the variables of the basic blocks and of the bindings
ssavars == << blocks, call, ser >>
bindvars == << binds, bcall >>
\* the variables of merging and of resolving phi bindings
phivars == << fbinds, mg, sels, gen, vcall >>
\* everything a protocol session leaves alone
others == << gt, ssavars, bindvars, phivars >>
vars == << svars, gt, ssavars, bindvars, phivars >>

\* values of the variables of the parts that are not running
NoGate == [pc |-> "none"]
NoCall == [op |-> "none"]
NoSer == [entry |-> 0]
NoBCall == [op |-> "none"]
GateIdle == gt = NoGate
BlocksIdle == blocks = << >> /\ call = NoCall /\ ser = NoSer
BindsIdle == binds = << >> /\ bcall = NoBCall
NoMerge == [done |-> FALSE, result |-> << >>]
NoVCall == [n |-> 0]
MergeIdle == fbinds = << >> /\ mg = NoMerge
ValueIdle == sels = << >> /\ gen = 0 /\ vcall = NoVCall
PhiIdle == MergeIdle /\ ValueIdle

\* a return value not yet set, and a nil list of values
NoValues == << -1 >>
NilValues == << -2 >>
NoXfer == [wire |-> -1, v |-> "none"]
NoGarbled == [Wires |-> << >>, Gates |-> << >>]

Init ==
    /\ circ \in Circuits
    /\ inputs \in InputSeqs(circ.N1)
    /\ key \in Keys
    /\ gpc = "garble"
    /\ garbled = NoGarbled
    /\ gi = 0
    /\ wbuf = << >>
    /\ werr = FALSE
    /\ otRound = 0
    /\ xfer = NoXfer
    /\ result = 0
    /\ retVals = NoValues
    /\ retErr = "none"
    /\ g2e = << >>
    /\ e2g = << >>
    /\ closed = FALSE
    /\ mode \in {"honest", "any"}
    /\ einputs \in IF mode = "honest" THEN InputSeqs(circ.N2)
                   ELSE { [i \in 1 .. Len(circ.N2) |-> 0] }
    /\ epc = IF mode = "honest" THEN "tables" ELSE "any"
    /\ ei = 0
    /\ etables = << >>
    /\ elabels = << >>
    /\ eret = NoValues
    /\ held = {}
    /\ opsSent = 0
    /\ otWires = << >>
    /\ rlabels = << >>
    /\ log = << >>
    /\ GateIdle
    /\ BlocksIdle
    /\ BindsIdle
    /\ PhiIdle


(***************************************************************************)
(* The buffered transport (bufio.ReadWriter over the connection).          *)
(***************************************************************************)
\* a write fails when the writer already failed, or when it has to write
\* through to a connection the peer has closed
WriteFails(full) == werr \/ (full /\ closed)

\* sendData / sendUint32 of `frames`: they stay in the buffer unless the
\* buffer is full, and then everything buffered goes out
BufWrite(frames, full) ==
    /\ ~WriteFails(full)
    /\ werr' = werr
    /\ IF full
       THEN wbuf' = << >> /\ g2e' = g2e \o wbuf \o frames
       ELSE wbuf' = wbuf \o frames /\ g2e' = g2e

\* sendData of `frames` followed by conn.Flush(), whose error is dropped
WriteFlush(frames) ==
    /\ ~werr
    /\ IF closed
       THEN werr' = TRUE /\ wbuf' = wbuf \o frames /\ g2e' = g2e
       ELSE werr' = werr /\ wbuf' = << >> /\ g2e' = g2e \o wbuf \o frames

\* variant: the values decoded so far are returned with the error
GFail_Partial(e) ==
    /\ gpc' = "returned"
    /\ retVals' = Split(circ.N3, result)
    /\ retErr' = e

\* return nil, err
GFail(e) ==
    /\ gpc' = "returned"
    /\ retVals' = NilValues
    /\ retErr' = e

N1Size == IOSize(circ.N1)
N2Size == IOSize(circ.N2)
N3Size == IOSize(circ.N3)
NumGates == Len(circ.Gates)

PcInputs == IF N1Size > 0 THEN "inputs" ELSE "sender"
PcTables == IF NumGates > 0 THEN "tables" ELSE PcInputs

(***************************************************************************)
(* Garbler (garbler.go).                                                   *)
(***************************************************************************)
\* garbled, err := circ.Garble(key)
GGarble ==
    /\ gpc = "garble"
    /\ garbled' = Garble(circ, key)
    /\ gpc' = PcTables
    /\ UNCHANGED << circ, inputs, key, gi, wbuf, werr, otRound, xfer, result,
                    retVals, retErr, g2e, e2g, closed, otWires, rlabels, log >>
    /\ UNCHANGED << evars, others >>

GGarbleFail ==
    /\ gpc = "garble"
    /\ GFail("garble")
    /\ UNCHANGED << circ, inputs, key, garbled, gi, wbuf, werr, otRound, xfer,
                    result, g2e, e2g, closed, otWires, rlabels, log >>
    /\ UNCHANGED << evars, others >>

\* one iteration of "Send garbled tables"; garbled.Gates is ranged over in
\* gate id order
GSendTable ==
    /\ gpc = "tables"
    /\ \E full \in BOOLEAN :
          BufWrite(TableFrames(gi, garbled.Gates[gi]), full)
    /\ log' = Append(log, "table")
    /\ IF gi + 1 < NumGates
       THEN gi' = gi + 1 /\ gpc' = "tables"
       ELSE gi' = 0 /\ gpc' = PcInputs
    /\ UNCHANGED << circ, inputs, key, garbled, otRound, xfer, result,
                    retVals, retErr, e2g, closed, otWires, rlabels >>
    /\ UNCHANGED << evars, others >>

\* one iteration of "Send our inputs"
GSendInput ==
    /\ gpc = "inputs"
    /\ \E full \in BOOLEAN :
          BufWrite(<< Frame("label", gi,
                            SelectInput(circ, garbled.Wires, inputs, gi)) >>,
                   full)
    /\ log' = Append(log, "input")
    /\ IF gi + 1 < N1Size
       THEN gi' = gi + 1 /\ gpc' = "inputs"
       ELSE gi' = 0 /\ gpc' = "sender"
    /\ UNCHANGED << circ, inputs, key, garbled, otRound, xfer, result,
                    retVals, retErr, e2g, closed, otWires, rlabels >>
    /\ UNCHANGED << evars, others >>

\* sender, err := ot.NewSender(2048, garbled.Wires)
GNewSender ==
    /\ gpc = "sender"
    /\ gpc' = "pubkey"
    /\ UNCHANGED << circ, inputs, key, garbled, gi, wbuf, werr, otRound, xfer,
                    result, retVals, retErr, g2e, e2g, closed, otWires, rlabels,
                    log >>
    /\ UNCHANGED << evars, others >>

GNewSenderFail ==
    /\ gpc = "sender"
    /\ GFail("ot")
    /\ UNCHANGED << circ, inputs, key, garbled, gi, wbuf, werr, otRound, xfer,
                    result, g2e, e2g, closed, otWires, rlabels, log >>
    /\ UNCHANGED << evars, others >>

\* "Send our public key", then conn.Flush()
GSendPubKey ==
    /\ gpc = "pubkey"
    /\ WriteFlush(<< Frame("pubN", 0, 0), Frame("pubE", 0, 0) >>)
    /\ log' = log \o << "pubN", "pubE", "flush" >>
    /\ gpc' = "loop"
    /\ UNCHANGED << circ, inputs, key, garbled, gi, otRound, xfer, result,
                    retVals, retErr, e2g, closed, otWires, rlabels >>
    /\ UNCHANGED << evars, others >>

\* a sendData / sendUint32 that returns the transport's error
GSendFail ==
    /\ gpc \in {"tables", "inputs", "pubkey", "res_send"}
    /\ \E full \in BOOLEAN : WriteFails(full)
    /\ werr' = TRUE
    /\ GFail("transport")
    /\ UNCHANGED << circ, inputs, key, garbled, gi, wbuf, otRound, xfer,
                    result, g2e, e2g, closed, otWires, rlabels, log >>
    /\ UNCHANGED << evars, others >>

\* a receiveUint32 / receiveData that returns the transport's error
GRecvFail ==
    /\ gpc \in {"loop", "ot_bit", "ot_v", "res_label"}
    /\ e2g = << >>
    /\ closed
    /\ GFail("transport")
    /\ UNCHANGED << circ, inputs, key, garbled, gi, wbuf, werr, otRound, xfer,
                    result, g2e, e2g, closed, otWires, rlabels, log >>
    /\ UNCHANGED << evars, others >>

\* op, err := receiveUint32(conn); switch op
GRecvOp ==
    /\ gpc = "loop"
    /\ e2g # << >>
    /\ LET op == Head(e2g).v
       IN  /\ e2g' = Tail(e2g)
           /\ log' = Append(log, IF op \in {OP_OT, OP_RESULT} THEN "recvOp"
                                  ELSE "recvUnknownOp")
           /\ gpc' = IF op = OP_OT THEN "ot_bit"
                     ELSE IF op = OP_RESULT
                          THEN (IF N3Size > 0 THEN "res_label" ELSE "res_send")
                          ELSE "loop"
           /\ gi' = IF op = OP_RESULT THEN 0 ELSE gi
    /\ UNCHANGED << circ, inputs, key, garbled, wbuf, werr, otRound, xfer,
                    result, retVals, retErr, g2e, closed, otWires, rlabels >>
    /\ UNCHANGED << evars, others >>

\* variant: x0 and x1 are not flushed
GOtBit_NoFlush ==
    /\ gpc = "ot_bit"
    /\ e2g # << >>
    /\ LET bit == Head(e2g).v
           w == NewTransferWire(circ, otRound, bit)
       IN  /\ e2g' = Tail(e2g)
           /\ IF NewTransferErr(circ, otRound, bit)
              THEN /\ GFail("newtransfer")
                   /\ otWires' = Append(otWires, [bit |-> bit, wire |-> -1])
                   /\ log' = Append(log, "recvBit")
                   /\ UNCHANGED << wbuf, werr, g2e, otRound, xfer >>
              ELSE /\ otRound' = otRound + 1
                   /\ xfer' = [wire |-> w, v |-> "none"]
                   /\ otWires' = Append(otWires, [bit |-> bit, wire |-> w])
                   /\ \E full \in BOOLEAN :
                         IF WriteFails(full)
                         THEN /\ GFail("transport")
                              /\ werr' = TRUE
                              /\ log' = Append(log, "recvBit")
                              /\ UNCHANGED << wbuf, g2e >>
                         ELSE /\ BufWrite(
                                   << Frame("x", w, RandomMessages[1]),
                                      Frame("x", w, RandomMessages[2]) >>,
                                   full)
                              /\ log' = log \o << "recvBit", "x0", "x1" >>
                              /\ gpc' = "ot_v"
                              /\ UNCHANGED << retVals, retErr >>
    /\ UNCHANGED << circ, inputs, key, garbled, gi, result, closed, rlabels >>
    /\ UNCHANGED << evars, others >>

\* variant: the error of sender.NewTransfer is not looked at
GOtBit_IgnoreErr ==
    /\ gpc = "ot_bit"
    /\ e2g # << >>
    /\ LET bit == Head(e2g).v
           w == NewTransferWire(circ, otRound, bit)
       IN  /\ e2g' = Tail(e2g)
           /\ otRound' = otRound + 1
           /\ xfer' = [wire |-> w, v |-> "none"]
           /\ otWires' = Append(otWires, [bit |-> bit, wire |-> w])
           /\ \E full \in BOOLEAN :
                 IF WriteFails(full)
                 THEN /\ GFail("transport")
                      /\ werr' = TRUE
                      /\ log' = Append(log, "recvBit")
                      /\ UNCHANGED << wbuf, g2e >>
                 ELSE /\ WriteFlush(<< Frame("x", w, RandomMessages[1]),
                                       Frame("x", w, RandomMessages[2]) >>)
                      /\ log' = log \o << "recvBit", "x0", "x1", "flush" >>
                      /\ gpc' = "ot_v"
                      /\ UNCHANGED << retVals, retErr >>
    /\ UNCHANGED << circ, inputs, key, garbled, gi, result, closed, rlabels >>
    /\ UNCHANGED << evars, others >>

\* case OP_OT, up to the first conn.Flush()
GOtBit ==
    /\ gpc = "ot_bit"
    /\ e2g # << >>
    /\ LET bit == Head(e2g).v
           w == NewTransferWire(circ, otRound, bit)
       IN  /\ e2g' = Tail(e2g)
           /\ IF NewTransferErr(circ, otRound, bit)
              THEN /\ GFail("newtransfer")
                   /\ otWires' = Append(otWires, [bit |-> bit, wire |-> -1])
                   /\ log' = Append(log, "recvBit")
                   /\ UNCHANGED << wbuf, werr, g2e, otRound, xfer >>
              ELSE /\ otRound' = otRound + 1
                   /\ xfer' = [wire |-> w, v |-> "none"]
                   /\ otWires' = Append(otWires, [bit |-> bit, wire |-> w])
                   /\ \E full \in BOOLEAN :
                         IF WriteFails(full)
                         THEN /\ GFail("transport")
                              /\ werr' = TRUE
                              /\ log' = Append(log, "recvBit")
                              /\ UNCHANGED << wbuf, g2e >>
                         ELSE /\ WriteFlush(
                                   << Frame("x", w, RandomMessages[1]),
                                      Frame("x", w, RandomMessages[2]) >>)
                              /\ log' = log \o
                                    << "recvBit", "x0", "x1", "flush" >>
                              /\ gpc' = "ot_v"
                              /\ UNCHANGED << retVals, retErr >>
    /\ UNCHANGED << circ, inputs, key, garbled, gi, result, closed, rlabels >>
    /\ UNCHANGED << evars, others >>

\* case OP_OT, from receiveData(v) to the second conn.Flush()
GOtV ==
    /\ gpc = "ot_v"
    /\ e2g # << >>
    /\ LET v == Head(e2g).v
       IN  /\ e2g' = Tail(e2g)
           /\ xfer' = [xfer EXCEPT !.v = v]
           /\ IF MessagesErr(v)
              THEN /\ GFail("messages")
                   /\ log' = Append(log, "recvV")
                   /\ UNCHANGED << wbuf, werr, g2e >>
              ELSE \E full \in BOOLEAN :
                      IF WriteFails(full)
                      THEN /\ GFail("transport")
                           /\ werr' = TRUE
                           /\ log' = Append(log, "recvV")
                           /\ UNCHANGED << wbuf, g2e >>
                      ELSE /\ WriteFlush(
                                Messages(garbled.Wires[xfer.wire],
                                         xfer.wire, v))
                           /\ log' = log \o << "recvV", "m0", "m1", "flush" >>
                           /\ gpc' = "loop"
                           /\ UNCHANGED << retVals, retErr >>
    /\ UNCHANGED << circ, inputs, key, garbled, gi, otRound, result, closed,
                    otWires, rlabels >>
    /\ UNCHANGED << evars, others >>

\* variant: the two labels are taken for each other
DecodeLabel_Swapped(wire, label) ==
    IF label = wire.Label0 THEN 1
    ELSE IF label = wire.Label1 THEN 0
    ELSE -1

\* variant: a label that is not Label0 counts as Label1
DecodeLabel_Lenient(wire, label) ==
    IF label = wire.Label0 THEN 0 ELSE 1

\* bit of the result a received output label stands for; -1 for neither
DecodeLabel(wire, label) ==
    IF label = wire.Label0 THEN 0
    ELSE IF label = wire.Label1 THEN 1
    ELSE -1

\* output wire of result bit i
OutputWire(i) == circ.NumWires - N3Size + i

\* case OP_RESULT: one iteration of the label loop
GResLabel ==
    /\ gpc = "res_label"
    /\ e2g # << >>
    /\ LET label == Head(e2g).v
           bit == DecodeLabel(garbled.Wires[OutputWire(gi)], label)
       IN  /\ e2g' = Tail(e2g)
           /\ rlabels' = Append(rlabels, label)
           /\ log' = Append(log, "recvLabel")
           /\ IF bit = -1
              THEN /\ GFail("unknown label")
                   /\ UNCHANGED << result, gi >>
              ELSE /\ result' = SetBit(result, gi, bit)
                   /\ gi' = gi + 1
                   /\ gpc' = IF gi + 1 < N3Size THEN "res_label"
                             ELSE "res_send"
                   /\ UNCHANGED << retVals, retErr >>
    /\ UNCHANGED << circ, inputs, key, garbled, wbuf, werr, otRound, xfer,
                    g2e, closed, otWires >>
    /\ UNCHANGED << evars, others >>

\* variant: done is not set, the loop goes on
GResSend_NotDone ==
    /\ gpc = "res_send"
    /\ WriteFlush(<< Frame("result", 0, Bytes(result)) >>)
    /\ log' = log \o << "result", "flush" >>
    /\ gpc' = "loop"
    /\ UNCHANGED << circ, inputs, key, garbled, gi, otRound, xfer, result,
                    retVals, retErr, e2g, closed, otWires, rlabels >>
    /\ UNCHANGED << evars, others >>

\* case OP_RESULT: send the result, flush, leave the loop and return
GResSend ==
    /\ gpc = "res_send"
    /\ WriteFlush(<< Frame("result", 0, Bytes(result)) >>)
    /\ log' = log \o << "result", "flush" >>
    /\ gpc' = "returned"
    /\ retVals' = Split(circ.N3, result)
    /\ retErr' = "nil"
    /\ UNCHANGED << circ, inputs, key, garbled, gi, otRound, xfer, result,
                    e2g, closed, otWires, rlabels >>
    /\ UNCHANGED << evars, others >>

GarblerStep ==
    \/ GGarble \/ GGarbleFail \/ GSendTable \/ GSendInput \/ GNewSender
    \/ GNewSenderFail \/ GSendPubKey \/ GSendFail \/ GRecvFail \/ GRecvOp
    \/ GOtBit \/ GOtV \/ GResLabel \/ GResSend


(***************************************************************************)
(* The Evaluator following its sequence.                                   *)
(***************************************************************************)
EPcOt == IF N2Size > 0 THEN "ot" ELSE "result"
EPcInputs == IF N1Size > 0 THEN "inputs" ELSE "pubkey"

\* read one gate record into the table map
EvReadTable ==
    /\ mode = "honest"
    /\ epc = "tables"
    /\ Len(g2e) >= 2
    /\ Len(g2e) >= 2 + g2e[2].v
    /\ LET id == g2e[1].v
           n == g2e[2].v
       IN  /\ etables' = (id :> [i \in 1 .. n |-> g2e[2 + i].v]) @@ etables
           /\ g2e' = SubSeq(g2e, 3 + n, Len(g2e))
    /\ IF ei + 1 < NumGates
       THEN ei' = ei + 1 /\ epc' = "tables"
       ELSE ei' = 0 /\ epc' = EPcInputs
    /\ UNCHANGED << mode, einputs, elabels, eret, held, opsSent >>
    /\ UNCHANGED << e2g, closed, otWires, rlabels, log >>
    /\ UNCHANGED << gvars, others >>

\* read one Garbler input label into the position-indexed vector
EvReadInput ==
    /\ mode = "honest"
    /\ epc = "inputs"
    /\ g2e # << >>
    /\ elabels' = Append(elabels, Head(g2e).v)
    /\ held' = held \cup { << ei, Head(g2e).v >> }
    /\ g2e' = Tail(g2e)
    /\ IF ei + 1 < N1Size
       THEN ei' = ei + 1 /\ epc' = "inputs"
       ELSE ei' = 0 /\ epc' = "pubkey"
    /\ UNCHANGED << mode, einputs, etables, eret, opsSent >>
    /\ UNCHANGED << e2g, closed, otWires, rlabels, log >>
    /\ UNCHANGED << gvars, others >>

\* read the RSA public key (n, e)
EvReadPubKey ==
    /\ mode = "honest"
    /\ epc = "pubkey"
    /\ Len(g2e) >= 2
    /\ g2e' = SubSeq(g2e, 3, Len(g2e))
    /\ epc' = EPcOt
    /\ UNCHANGED << mode, einputs, ei, etables, elabels, eret, held, opsSent >>
    /\ UNCHANGED << e2g, closed, otWires, rlabels, log >>
    /\ UNCHANGED << gvars, others >>

\* send OP_OT and the bit index of the next own input wire
EvOtRequest ==
    /\ mode = "honest"
    /\ epc = "ot"
    /\ e2g' = e2g \o << Frame("op", 0, OP_OT), Frame("bit", 0, N1Size + ei) >>
    /\ opsSent' = opsSent + 1
    /\ epc' = "ot_x"
    /\ UNCHANGED << mode, einputs, ei, etables, elabels, eret, held >>
    /\ UNCHANGED << g2e, closed, otWires, rlabels, log >>
    /\ UNCHANGED << gvars, others >>

\* Receiver: read (x0, x1), send v for the own input bit
EvOtChoose ==
    /\ mode = "honest"
    /\ epc = "ot_x"
    /\ Len(g2e) >= 2
    /\ g2e' = SubSeq(g2e, 3, Len(g2e))
    /\ e2g' = Append(e2g, Frame("v", 0,
                                ReceiverV(InputBit(circ.N2, einputs, ei))))
    /\ epc' = "ot_m"
    /\ UNCHANGED << mode, einputs, ei, etables, elabels, eret, held, opsSent >>
    /\ UNCHANGED << closed, otWires, rlabels, log >>
    /\ UNCHANGED << gvars, others >>

\* Receiver: read (m0', m1'), recover m_b and store it for the wire
EvOtRecover ==
    /\ mode = "honest"
    /\ epc = "ot_m"
    /\ Len(g2e) >= 2
    /\ LET m == g2e[InputBit(circ.N2, einputs, ei) + 1]
           label == IF m.open THEN m.v ELSE -1
       IN  /\ elabels' = Append(elabels, label)
           /\ held' = held \cup { << N1Size + ei, label >> }
    /\ g2e' = SubSeq(g2e, 3, Len(g2e))
    /\ IF ei + 1 < N2Size
       THEN ei' = ei + 1 /\ epc' = "ot"
       ELSE ei' = 0 /\ epc' = "result"
    /\ UNCHANGED << mode, einputs, etables, eret, opsSent >>
    /\ UNCHANGED << e2g, closed, otWires, rlabels, log >>
    /\ UNCHANGED << gvars, others >>

\* evaluate the circuit, send OP_RESULT and one label per output wire
EvResult ==
    /\ mode = "honest"
    /\ epc = "result"
    /\ LET ev == EvalWires(circ, etables, elabels, NumGates)
       IN  /\ e2g' = e2g \o << Frame("op", 0, OP_RESULT) >> \o
                  [i \in 1 .. N3Size |->
                      Frame("label", OutputWire(i - 1), ev[OutputWire(i - 1)])]
           /\ held' = held \cup { << w, ev[w] >> : w \in 0 .. circ.NumWires - 1 }
    /\ opsSent' = opsSent + 1
    /\ epc' = "wait"
    /\ UNCHANGED << mode, einputs, ei, etables, elabels, eret >>
    /\ UNCHANGED << g2e, closed, otWires, rlabels, log >>
    /\ UNCHANGED << gvars, others >>

\* read the result frame, decode the integer and split it
EvFinish ==
    /\ mode = "honest"
    /\ epc = "wait"
    /\ g2e # << >>
    /\ eret' = Split(circ.N3, SetBytes(Head(g2e).v))
    /\ g2e' = Tail(g2e)
    /\ epc' = "done"
    /\ UNCHANGED << mode, einputs, ei, etables, elabels, held, opsSent >>
    /\ UNCHANGED << e2g, closed, otWires, rlabels, log >>
    /\ UNCHANGED << gvars, others >>

(***************************************************************************)
(* A peer that sends whatever it likes.                                    *)
(***************************************************************************)
\* a label that is neither label of the wire
OtherLabel(wire) ==
    CHOOSE l \in 0 .. LabelMod - 1 : l # wire.Label0 /\ l # wire.Label1

\* bit indices the peer asks for: a Garbler input wire, the first and the
\* last Evaluator input wire, an output wire, and one past the last wire
BitChoices ==
    {0, N1Size, N1Size + N2Size - 1, circ.NumWires - 1, circ.NumWires}

\* what the peer may send for the Garbler's pending receive
AnyFrames ==
    CASE gpc = "loop" ->
            { Frame("op", 0, op) : op \in {OP_OT, OP_RESULT, OP_RESULT + 1} }
      [] gpc = "ot_bit" ->
            { Frame("bit", 0, b) : b \in BitChoices }
      [] gpc = "ot_v" ->
            { Frame("v", 0, v) : v \in {"x0", "x1", "junk"} }
      [] gpc = "res_label" ->
            LET wire == garbled.Wires[OutputWire(gi)]
            IN  { Frame("label", OutputWire(gi), l) :
                    l \in {wire.Label0, wire.Label1, OtherLabel(wire)} }
      [] OTHER -> {}

AnySend ==
    /\ mode = "any"
    /\ ~closed
    /\ e2g = << >>
    /\ gpc = "loop" => opsSent < MaxOps
    /\ \E f \in AnyFrames : e2g' = << f >>
    /\ opsSent' = IF gpc = "loop" THEN opsSent + 1 ELSE opsSent
    /\ UNCHANGED << mode, einputs, epc, ei, etables, elabels, eret, held >>
    /\ UNCHANGED << g2e, closed, otWires, rlabels, log >>
    /\ UNCHANGED << gvars, others >>

\* the labels the frames give to their reader
Learned(fs) ==
    { << fs[i].w, fs[i].v >> :
        i \in { j \in 1 .. Len(fs) :
                  \/ fs[j].kind = "label"
                  \/ (fs[j].kind = "m" /\ fs[j].open) } }

AnyRecv ==
    /\ mode = "any"
    /\ ~closed
    /\ g2e # << >>
    /\ held' = held \cup Learned(g2e)
    /\ g2e' = << >>
    /\ UNCHANGED << mode, einputs, epc, ei, etables, elabels, eret, opsSent >>
    /\ UNCHANGED << e2g, closed, otWires, rlabels, log >>
    /\ UNCHANGED << gvars, others >>

AnyClose ==
    /\ mode = "any"
    /\ ~closed
    /\ gpc # "returned"
    /\ closed' = TRUE
    /\ UNCHANGED << evars, others >>
    /\ UNCHANGED << g2e, e2g, otWires, rlabels, log >>
    /\ UNCHANGED << gvars, others >>

EvaluatorStep ==
    \/ EvReadTable \/ EvReadInput \/ EvReadPubKey \/ EvOtRequest
    \/ EvOtChoose \/ EvOtRecover \/ EvResult \/ EvFinish

PeerStep == AnySend \/ AnyRecv \/ AnyClose

Next == GarblerStep \/ EvaluatorStep \/ PeerStep

Spec == Init /\ [][Next]_vars

(***************************************************************************)
(* A session in which garbling and the sender set-up succeed and the       *)
(* Evaluator follows its sequence.  The transport is reliable: nobody      *)
(* closes the stream, so no send or receive fails.  The Garbler and the    *)
(* Evaluator are two running processes; each takes its next protocol step  *)
(* (a send, a flush or a receive whose data has arrived) when it can.      *)
(***************************************************************************)
HonestInit == Init /\ mode = "honest"

\* the Garbler's steps from "Send garbled tables" to the end of the loop
GarblerProtocolStep ==
    \/ GSendTable \/ GSendInput \/ GNewSender \/ GSendPubKey
    \/ GRecvOp \/ GOtBit \/ GOtV \/ GResLabel \/ GResSend

HonestNext == GGarble \/ GarblerProtocolStep \/ EvaluatorStep

FairSpec ==
    /\ HonestInit
    /\ [][HonestNext]_vars
    /\ WF_vars(GarblerProtocolStep)
    /\ WF_vars(EvaluatorStep)


(***************************************************************************)
(* The state of a session that is not running.                             *)
(***************************************************************************)
SessionIdle ==
    /\ circ = CircAnd
    /\ inputs = << 0 >>
    /\ key = 1
    /\ gpc = "idle"
    /\ garbled = NoGarbled
    /\ gi = 0
    /\ wbuf = << >>
    /\ werr = FALSE
    /\ otRound = 0
    /\ xfer = NoXfer
    /\ result = 0
    /\ retVals = NoValues
    /\ retErr = "none"
    /\ g2e = << >>
    /\ e2g = << >>
    /\ closed = FALSE
    /\ mode = "idle"
    /\ einputs = << 0 >>
    /\ epc = "idle"
    /\ ei = 0
    /\ etables = << >>
    /\ elabels = << >>
    /\ eret = NoValues
    /\ held = {}
    /\ opsSent = 0
    /\ otWires = << >>
    /\ rlabels = << >>
    /\ log = << >>

(***************************************************************************)
(* One gate garbled with row reduction and evaluated on its own, for any   *)
(* labels of its two input wires and any global offset.                    *)
(***************************************************************************)
Labels == 0 .. LabelMod - 1
\* the global offset has permute tag 1
Offsets == { d \in Labels : Tag(d) = 1 }

\* a circuit whose gate `id` is the gate under test on wires 0 and 1; the
\* gates before it are free XOR gates
GateCircuit(op, id) ==
    [N1 |-> << 1 >>, N2 |-> << 1 >>, N3 |-> << 1 >>, NumWires |-> 3 + id,
     Gates |-> [k \in 1 .. id + 1 |->
                  Gate(IF k = id + 1 THEN op ELSE "XOR", 0, 1, k + 1)]]

GateInit ==
    /\ SessionIdle
    /\ BlocksIdle
    /\ BindsIdle
    /\ PhiIdle
    /\ \E op \in {"AND", "OR"}, id \in 0 .. MaxGateId, la0 \in Labels,
          lb0 \in Labels, delta \in Offsets :
          gt = [pc |-> "new", op |-> op, id |-> id, delta |-> delta,
                wires |-> << WireD(la0, delta), WireD(lb0, delta) >>,
                rows |-> << >>, a |-> 0, b |-> 0, la |-> 0, lb |-> 0,
                out |-> 0]

\* garble the gate: the labels of the output wire and the transmitted rows;
\* wires holds the wire of index w at position w + 1
GateGarble ==
    /\ gt.pc = "new"
    /\ LET c == GateCircuit(gt.op, gt.id)
           wires == [w \in 0 .. c.NumWires - 1 |->
                        IF w < 2 THEN gt.wires[w + 1]
                        ELSE GarbledOut(c.Gates[w - 1], w - 2, gt.wires[1],
                                        gt.wires[2], gt.delta)]
       IN  gt' = [gt EXCEPT !.pc = "garbled",
                            !.wires = [i \in 1 .. c.NumWires |-> wires[i - 1]],
                            !.rows = GarbleTable(c, wires, gt.id)]
    /\ UNCHANGED << svars, ssavars, bindvars, phivars >>

\* evaluate the gate holding the labels of the values a and b
GateEval ==
    /\ gt.pc = "garbled"
    /\ \E a \in {0, 1}, b \in {0, 1} :
          LET c == GateCircuit(gt.op, gt.id)
              la == ValueLabel(gt.wires[1], a)
              lb == ValueLabel(gt.wires[2], b)
          IN  gt' = [gt EXCEPT !.pc = "evaluated", !.a = a, !.b = b,
                               !.la = la, !.lb = lb,
                               !.out = EvalGate(c.Gates[gt.id + 1], gt.id,
                                                gt.rows, la, lb)]
    /\ UNCHANGED << svars, ssavars, bindvars, phivars >>

GateNext == GateGarble \/ GateEval

GateSpec == GateInit /\ [][GateNext]_vars


(***************************************************************************)
(* Basic blocks (compiler/ssa/block.go).  A block is known by its ID, the  *)
(* key of Equals and of the seen map; block b has ID b and Nil is no       *)
(* block.  A name is a sequence, empty for a block without a name.  The    *)
(* instructions of a block are told apart by their block and position.     *)
(***************************************************************************)
Nil == 0
BlockIds == 1 .. NumBlocks

NewBlock(id, name, ninstr) ==
    [ID |-> id, Name |-> name, From |-> << >>, Next |-> Nil, Branch |-> Nil,
     Instr |-> [n \in 1 .. ninstr |-> [blk |-> id, n |-> n]]]

BlockInit ==
    /\ SessionIdle
    /\ GateIdle
    /\ BindsIdle
    /\ PhiIdle
    /\ \E r \in 0 .. MaxInstr, named \in 0 .. 1 :
          blocks = [b \in BlockIds |->
                      NewBlock(b, IF b % 2 = named THEN << b >> ELSE << >>,
                               (b + r) % (MaxInstr + 1))]
    /\ call = NoCall
    /\ ser = NoSer

\* Block.Equals
Equals(bs, b, o) == bs[b].ID = bs[o].ID

\* variant: the block is appended without looking at the list
addFrom_NoCheck(bs, b, o) == [bs EXCEPT ![b].From = Append(@, o)]

\* Block.addFrom: o is appended to b.From unless a block equal to o is there
addFrom(bs, b, o) ==
    IF \E i \in 1 .. Len(bs[b].From) : Equals(bs, bs[b].From[i], o)
    THEN bs
    ELSE [bs EXCEPT ![b].From = Append(@, o)]

\* links set among the blocks
LinkCount(bs) ==
    Cardinality({ b \in BlockIds : bs[b].Next # Nil })
        + Cardinality({ b \in BlockIds : bs[b].Branch # Nil })

\* Block.SetNext; the panic leaves every block as it was
SetNext(b, o) ==
    /\ blocks[b].Next # Nil \/ LinkCount(blocks) < MaxLinks
    /\ IF blocks[b].Next # Nil /\ blocks[blocks[b].Next].ID # blocks[o].ID
       THEN /\ call' = [op |-> "panic"]
            /\ UNCHANGED blocks
       ELSE /\ blocks' = addFrom([blocks EXCEPT ![b].Next = o], o, b)
            /\ call' = [op |-> "ok"]
    /\ ser' = NoSer
    /\ UNCHANGED << svars, gt, bindvars, phivars >>

\* Block.SetBranch; it panics too when the formatting of the panic message
\* dereferences a nil b.Next
SetBranch(b, o) ==
    /\ blocks[b].Branch # Nil \/ LinkCount(blocks) < MaxLinks
    /\ IF blocks[b].Branch # Nil
          /\ blocks[blocks[b].Branch].ID # blocks[o].ID
       THEN /\ call' = [op |-> "panic"]
            /\ UNCHANGED blocks
       ELSE /\ blocks' = addFrom([blocks EXCEPT ![b].Branch = o], o, b)
            /\ call' = [op |-> "ok"]
    /\ ser' = NoSer
    /\ UNCHANGED << svars, gt, bindvars, phivars >>

\* the steps of one block: only the first carries the label
BlockSteps(blk) ==
    [i \in 1 .. Len(blk.Instr) |->
        [Label |-> IF i = 1 THEN blk.Name ELSE << >>, Instr |-> blk.Instr[i]]]

\* Block.serialize; st.seen lists the IDs of the seen map in the order in
\* which they were set
RECURSIVE serialize(_, _, _)
\* variant: a block does not wait for its predecessors
serialize_NoWait(bs, b, st) ==
    IF \E i \in 1 .. Len(st.seen) : st.seen[i] = bs[b].ID
    THEN st
    ELSE LET st1 == [code |-> st.code \o BlockSteps(bs[b]),
                     seen |-> Append(st.seen, bs[b].ID)]
             st2 == IF bs[b].Branch # Nil
                    THEN serialize(bs, bs[b].Branch, st1) ELSE st1
         IN  IF bs[b].Next # Nil
             THEN serialize(bs, bs[b].Next, st2) ELSE st2

\* variant: the Branch block is not followed
serialize_NoBranch(bs, b, st) ==
    IF \E i \in 1 .. Len(st.seen) : st.seen[i] = bs[b].ID
    THEN st
    ELSE IF \E j \in 1 .. Len(bs[b].From) :
               ~\E i \in 1 .. Len(st.seen) :
                   st.seen[i] = bs[bs[b].From[j]].ID
    THEN st
    ELSE LET st1 == [code |-> st.code \o BlockSteps(bs[b]),
                     seen |-> Append(st.seen, bs[b].ID)]
         IN  IF bs[b].Next # Nil
             THEN serialize(bs, bs[b].Next, st1) ELSE st1

serialize(bs, b, st) ==
    IF \E i \in 1 .. Len(st.seen) : st.seen[i] = bs[b].ID
    THEN st
    ELSE IF \E j \in 1 .. Len(bs[b].From) :
               ~\E i \in 1 .. Len(st.seen) :
                   st.seen[i] = bs[bs[b].From[j]].ID
    THEN st
    ELSE LET st1 == [code |-> st.code \o BlockSteps(bs[b]),
                     seen |-> Append(st.seen, bs[b].ID)]
             st2 == IF bs[b].Branch # Nil
                    THEN serialize(bs, bs[b].Branch, st1) ELSE st1
         IN  IF bs[b].Next # Nil
             THEN serialize(bs, bs[b].Next, st2) ELSE st2

\* Block.Serialize
Serialize(b) ==
    /\ LET st == serialize(blocks, b, [code |-> << >>, seen |-> << >>])
       IN  ser' = [entry |-> b, code |-> st.code, seen |-> st.seen]
    /\ UNCHANGED << blocks, call >>
    /\ UNCHANGED << svars, gt, bindvars, phivars >>

BlockNext ==
    \/ \E b \in BlockIds, o \in BlockIds : SetNext(b, o)
    \/ \E b \in BlockIds, o \in BlockIds : SetBranch(b, o)
    \/ \E b \in BlockIds : Serialize(b)

BlockSpec == BlockInit /\ [][BlockNext]_vars


(***************************************************************************)
(* Bindings (compiler/ssa/block.go): a list of bindings of variables,      *)
(* each with the variable's name, scope and type and the value bound.      *)
(* Variable names are not empty: Get itself reads an empty name as "no     *)
(* binding".                                                               *)
(***************************************************************************)
VarNames == {"a", "b"}
Scopes == 0 .. MaxScope
Types == {"T1", "T2"}

Variable(name, scope, type) == [Name |-> name, Scope |-> scope, Type |-> type]

\* a nil *Variable, and a value other than the variable itself
NilVar == Variable("", 0, "nil")
ConstVar == Variable("$1", 0, "T1")

\* the zero Binding
ZeroBinding == [Name |-> "", Scope |-> 0, Type |-> "nil", Bound |-> NilVar]

\* the entries with the name and scope of v
Matches(bs, v) ==
    { i \in 1 .. Len(bs) : bs[i].Name = v.Name /\ bs[i].Scope = v.Scope }

\* variant: an entry of the same name is replaced whatever its scope
Set_ByName(bs, v, val) ==
    LET m == { i \in 1 .. Len(bs) : bs[i].Name = v.Name }
        bound == IF val # NilVar THEN val ELSE v
    IN  IF m # {}
        THEN LET idx == CHOOSE i \in m : \A j \in m : i <= j
             IN  [bs EXCEPT ![idx] = [@ EXCEPT !.Type = v.Type,
                                               !.Bound = bound]]
        ELSE Append(bs, [Name |-> v.Name, Scope |-> v.Scope,
                         Type |-> v.Type, Bound |-> bound])

\* Bindings.Set
Set(bs, v, val) ==
    LET m == Matches(bs, v)
        bound == IF val # NilVar THEN val ELSE v
    IN  IF m # {}
        THEN LET idx == CHOOSE i \in m : \A j \in m : i <= j
             IN  [bs EXCEPT ![idx] = [@ EXCEPT !.Type = v.Type,
                                               !.Bound = bound]]
        ELSE Append(bs, [Name |-> v.Name, Scope |-> v.Scope,
                         Type |-> v.Type, Bound |-> bound])

\* the loop of Bindings.Get from entry i on
RECURSIVE GetLoop(_, _, _, _)
GetLoop(bs, name, i, ret) ==
    IF i > Len(bs) THEN ret
    ELSE GetLoop(bs, name, i + 1,
                 IF /\ bs[i].Name = name
                    /\ (ret.Name = "" \/ bs[i].Scope > ret.Scope)
                 THEN bs[i] ELSE ret)

\* Bindings.Get
Get(bs, name) ==
    LET ret == GetLoop(bs, name, 1, ZeroBinding)
    IN  [ret |-> ret, ok |-> ret.Name # ""]

BindInit ==
    /\ SessionIdle
    /\ GateIdle
    /\ BlocksIdle
    /\ PhiIdle
    /\ binds = << >>
    /\ bcall = NoBCall

BSet ==
    \E name \in VarNames, scope \in Scopes, type \in Types,
       val \in {NilVar, ConstVar} :
        LET v == Variable(name, scope, type)
        IN  /\ Matches(binds, v) # {} \/ Len(binds) < MaxBindings
            /\ binds' = Set(binds, v, val)
            /\ bcall' = [op |-> "Set", v |-> v, val |-> val]
            /\ UNCHANGED << svars, gt, ssavars, phivars >>

BGet ==
    \E name \in VarNames :
        /\ bcall' = [op |-> "Get", name |-> name,
                     ret |-> Get(binds, name).ret, ok |-> Get(binds, name).ok]
        /\ UNCHANGED binds
        /\ UNCHANGED << svars, gt, ssavars, phivars >>

BindNext == BSet \/ BGet

BindSpec == BindInit /\ [][BindNext]_vars


(***************************************************************************)
(* Bindings.Merge (compiler/ssa/block.go).  binds holds the bindings of    *)
(* the true branch of an if and fbinds those of the false branch.  A bound *)
(* value is a Variable or a Select, the record with a Cond field.          *)
(***************************************************************************)
\* the condition of the if being merged, and the one of an earlier if
MergeCond == Variable("c1", 0, "T1")
EarlierCond == Variable("c2", 0, "T1")

\* the values bound in the branches: two variables and the Select an
\* earlier Merge made of them
BoundValues ==
    { Variable("x", 0, "T1"), Variable("y", 0, "T2"),
      [Cond |-> EarlierCond, Type |-> "T2", True |-> Variable("x", 0, "T1"),
       False |-> Variable("y", 0, "T2")] }

\* the bindings a branch can hold: entries made by Set, no two with the
\* same name and scope
Entries ==
    [Name : VarNames, Scope : Scopes, Type : Types, Bound : BoundValues]
BranchBindings ==
    { << >> } \cup { << e >> : e \in Entries }
        \cup { p \in { << e, f >> : e \in Entries, f \in Entries } :
                   p[1].Name # p[2].Name \/ p[1].Scope # p[2].Scope }

\* types.Info.Bits
Bits(type) == IF type = "T1" THEN 1 ELSE 2

IsSelect(x) == "Cond" \in DOMAIN x

\* Variable.Equal: the same variable
VarEqual(x, o) == ~IsSelect(o) /\ x = o

\* BindingValue.Equal: Select.Equal for a Select, Variable.Equal for a
\* Variable
RECURSIVE Equal(_, _)
Equal(x, o) ==
    IF IsSelect(x)
    THEN /\ IsSelect(o)
         /\ VarEqual(x.Cond, o.Cond)
         /\ Equal(x.True, o.True)
         /\ Equal(x.False, o.False)
    ELSE VarEqual(x, o)

\* Bindings.Clone
Clone(bs) == [i \in 1 .. Len(bs) |-> bs[i]]

\* variant: a Select is made whenever both sides bind the name
MergeName_AlwaysSelect(cond, tb, fb, name) ==
    LET bTrue == Get(tb, name)
        bFalse == Get(fb, name)
    IN  IF ~bTrue.ok /\ ~bFalse.ok THEN << >>
        ELSE IF ~bTrue.ok THEN << bFalse.ret >>
        ELSE IF ~bFalse.ok THEN << bTrue.ret >>
        ELSE LET phiType == IF Bits(bTrue.ret.Type) > Bits(bFalse.ret.Type)
                            THEN bTrue.ret.Type ELSE bFalse.ret.Type
             IN  << [Name |-> name, Scope |-> bTrue.ret.Scope,
                     Type |-> phiType,
                     Bound |-> [Cond |-> cond, Type |-> phiType,
                                True |-> bTrue.ret.Bound,
                                False |-> bFalse.ret.Bound]] >>

\* the body of the loop of Bindings.Merge: what one name adds to the result
MergeName(cond, tb, fb, name) ==
    LET bTrue == Get(tb, name)
        bFalse == Get(fb, name)
    IN  IF ~bTrue.ok /\ ~bFalse.ok THEN << >>
        ELSE IF ~bTrue.ok THEN << bFalse.ret >>
        ELSE IF ~bFalse.ok THEN << bTrue.ret >>
        ELSE IF Equal(bTrue.ret.Bound, bFalse.ret.Bound) THEN << bTrue.ret >>
        ELSE LET phiType == IF Bits(bTrue.ret.Type) > Bits(bFalse.ret.Type)
                            THEN bTrue.ret.Type ELSE bFalse.ret.Type
             IN  << [Name |-> name, Scope |-> bTrue.ret.Scope,
                     Type |-> phiType,
                     Bound |-> [Cond |-> cond, Type |-> phiType,
                                True |-> bTrue.ret.Bound,
                                False |-> bFalse.ret.Bound]] >>

\* the names of the two sides, and the orders in which ranging over the
\* map of names can yield them
NamesOf(tb, fb) ==
    { tb[i].Name : i \in 1 .. Len(tb) } \cup { fb[i].Name : i \in 1 .. Len(fb) }

RECURSIVE Orders(_)
Orders(S) ==
    IF S = {} THEN { << >> }
    ELSE UNION { { << x >> \o p : p \in Orders(S \ {x}) } : x \in S }

\* Bindings.Merge, with the names ranged over in the given order
RECURSIVE Merge(_, _, _, _)
Merge(cond, tb, fb, order) ==
    IF order = << >> THEN << >>
    ELSE MergeName(cond, tb, fb, Head(order))
            \o Merge(cond, tb, fb, Tail(order))

MergeInit ==
    /\ SessionIdle
    /\ GateIdle
    /\ BlocksIdle
    /\ ValueIdle
    /\ binds \in BranchBindings
    /\ fbinds \in { fb \in BranchBindings :
                      Len(binds) + Len(fb) <= MaxBranchBindings }
    /\ bcall = NoBCall
    /\ mg = NoMerge

\* falseBindings := bindings.Clone()
MClone ==
    /\ fbinds' = Clone(binds)
    /\ mg' = NoMerge
    /\ UNCHANGED << binds, bcall, sels, gen, vcall >>
    /\ UNCHANGED << svars, gt, ssavars >>

\* result := bindings.Merge(cond, falseBindings)
MMerge ==
    /\ \E order \in Orders(NamesOf(binds, fbinds)) :
          mg' = [done |-> TRUE,
                 result |-> Merge(MergeCond, binds, fbinds, order)]
    /\ UNCHANGED << binds, fbinds, bcall, sels, gen, vcall >>
    /\ UNCHANGED << svars, gt, ssavars >>

MergeNext == MClone \/ MMerge

MergeSpec == MergeInit /\ [][MergeNext]_vars


(***************************************************************************)
(* Select.Value (compiler/ssa/block.go).  A Select is reached through a    *)
(* pointer: sels holds the Select values and [sel |-> i] refers to         *)
(* sels[i].  The True and False values of a Select are variables or        *)
(* Selects made before it.                                                 *)
(***************************************************************************)
\* a variable of the SSA form; anon numbers the anonymous variables and is
\* 0 for the others
SSAVar(name, type, anon) ==
    [Name |-> name, Scope |-> 0, Type |-> type, Anon |-> anon]

\* the zero Variable: its type is types.Undefined
ZeroVariable == SSAVar("", "Undefined", 0)

\* Generator.AnonVar: a new variable of the type
AnonVar(type, n) == SSAVar("%_", type, n)

SelectIds == 1 .. NumSelects
IsRef(x) == "sel" \in DOMAIN x

\* the two blocks Value is called with
ValueBlocks == {1, NumBlocks}

\* NewPhiInstr; by is the Select the instruction was made for
NewPhiInstr(cond, t, f, v, by) ==
    [op |-> "phi", cond |-> cond, t |-> t, f |-> f, v |-> v, by |-> by]

ValueInit ==
    /\ SessionIdle
    /\ GateIdle
    /\ BindsIdle
    /\ MergeIdle
    /\ blocks = [b \in BlockIds |-> NewBlock(b, << >>, 0)]
    /\ call = NoCall
    /\ ser = NoSer
    /\ sels \in [SelectIds ->
                   [Cond : {SSAVar("c", "T1", 0)}, Type : Types,
                    True : {SSAVar("x", "T1", 0)}
                              \cup { [sel |-> i] : i \in SelectIds },
                    False : {SSAVar("y", "T2", 0)}
                              \cup { [sel |-> i] : i \in SelectIds },
                    Resolved : {ZeroVariable}]]
    /\ \A k \in SelectIds :
          /\ sels[k].Type = (IF k % 2 = 1 THEN "T1" ELSE "T2")
          /\ IsRef(sels[k].True) => sels[k].True.sel < k
          /\ IsRef(sels[k].False) => sels[k].False.sel < k
    /\ gen = 0
    /\ vcall = NoVCall

\* BindingValue.Value on the value x with block b: Variable.Value returns
\* the variable, Select.Value is the branch for a reference.  st holds
\* the Select values, the generator's count, the instructions of the block
\* and the value returned.
RECURSIVE Value(_, _)
\* variant: the Resolved variable is not looked at
Value_NoMemo(st, x) ==
    IF ~IsRef(x) THEN [st EXCEPT !.ret = x]
    ELSE LET phi == st.sels[x.sel]
             st1 == Value(st, phi.True)
             st2 == Value(st1, phi.False)
             v == AnonVar(phi.Type, st2.gen + 1)
         IN  [sels |-> [st2.sels EXCEPT ![x.sel].Resolved = v],
              gen |-> st2.gen + 1,
              instr |-> Append(st2.instr,
                               NewPhiInstr(phi.Cond, st1.ret, st2.ret, v,
                                           x.sel)),
              ret |-> v]

Value(st, x) ==
    IF ~IsRef(x) THEN [st EXCEPT !.ret = x]
    ELSE LET phi == st.sels[x.sel]
         IN  IF phi.Resolved.Type # "Undefined"
             THEN [st EXCEPT !.ret = phi.Resolved]
             ELSE LET st1 == Value(st, phi.True)
                      st2 == Value(st1, phi.False)
                      v == AnonVar(phi.Type, st2.gen + 1)
                  IN  [sels |-> [st2.sels EXCEPT ![x.sel].Resolved = v],
                       gen |-> st2.gen + 1,
                       instr |-> Append(st2.instr,
                                        NewPhiInstr(phi.Cond, st1.ret,
                                                    st2.ret, v, x.sel)),
                       ret |-> v]

\* v := phi.Value(block, gen)
VValue ==
    /\ vcall.n < MaxValueCalls
    /\ \E k \in SelectIds, b \in ValueBlocks :
          LET st == Value([sels |-> sels, gen |-> gen,
                           instr |-> blocks[b].Instr, ret |-> ZeroVariable],
                          [sel |-> k])
          IN  /\ sels' = st.sels
              /\ gen' = st.gen
              /\ blocks' = [blocks EXCEPT ![b].Instr = st.instr]
              /\ vcall' = [n |-> vcall.n + 1, sel |-> k, block |-> b,
                           ret |-> st.ret]
    /\ UNCHANGED << call, ser, fbinds, mg >>
    /\ UNCHANGED << svars, gt, bindvars >>

ValueNext == VValue

ValueSpec == ValueInit /\ [][ValueNext]_vars


(***************************************************************************)
(* Properties.                                                             *)
(***************************************************************************)
ReturnedOk == gpc = "returned" /\ retErr = "nil"
LogIdx == 1 .. Len(log)
OtEvents == {"recvBit", "x0", "x1", "recvV", "m0", "m1"}
ResultEvents == {"recvLabel", "result"}
Count(ev) == Cardinality({ i \in LogIdx : log[i] = ev })

\* C1: in a completed session the Garbler and the Evaluator return the
\* same list of output values, and that list is the plaintext function of
\* the circuit on the two parties' inputs.
C1_SameResultAsPlaintext ==
    (ReturnedOk /\ epc = "done") =>
        /\ retVals = eret
        /\ retVals = Compute(circ, inputs, einputs)

C1_Witness ==
    /\ ReturnedOk
    /\ epc = "done"
    /\ circ = CircMix
    /\ inputs = << 0, 1 >>
    /\ einputs = << 2 >>
    /\ retVals = << 1, 1 >>

\* the frames of the protocol among the Garbler's events, and their phase
IsMessage(e) == e \notin {"flush", "recvOp", "recvUnknownOp"}
Phase(e) ==
    CASE e = "table" -> 1
      [] e = "input" -> 2
      [] e = "pubN" -> 3
      [] e = "pubE" -> 4
      [] e \in OtEvents -> 5
      [] e = "recvLabel" -> 6
      [] e = "result" -> 7

\* C2: the Garbler's messages are ordered: no table after an input label,
\* no table or input label after the public key, the public key (n, then
\* e) complete before any opcode is read, every started OT round complete
\* before the first output label is read, and nothing but the flush after
\* the result.
C2_PhaseOrder ==
    LET msgs == SelectSeq(log, IsMessage)
    IN  /\ \A i \in 1 .. Len(msgs) - 1 : Phase(msgs[i]) <= Phase(msgs[i + 1])
        /\ \A i \in LogIdx :
              /\ log[i] \in {"recvOp", "recvUnknownOp"} =>
                    (Count("pubN") = 1 /\ Count("pubE") = 1)
              /\ log[i] = "result" =>
                    (i = Len(log) - 1 /\ log[Len(log)] = "flush")
        /\ (\E j \in LogIdx : log[j] \in ResultEvents) =>
              Count("x0") = Count("m1")

C2_Witness ==
    /\ ReturnedOk
    /\ mode = "any"
    /\ Count("table") = 3
    /\ Count("input") = 2
    /\ Count("m1") = 2

\* C3: an OT round is strictly request/response: x0 and x1 are sent right
\* after OP_OT and the bit index were read, v is read only after x0 and x1
\* were sent and flushed, m0' and m1' are sent right after v was read and
\* are flushed; whenever the Garbler waits for a frame nothing is left in
\* its write buffer.
C3_OtRequestResponse ==
    /\ \A i \in LogIdx :
          /\ log[i] = "recvBit" => (i > 1 /\ log[i - 1] = "recvOp")
          /\ log[i] = "x0" => (i > 1 /\ log[i - 1] = "recvBit")
          /\ log[i] = "x1" =>
                (i > 1 /\ log[i - 1] = "x0"
                   /\ i < Len(log) /\ log[i + 1] = "flush")
          /\ log[i] = "recvV" =>
                (i > 3 /\ log[i - 1] = "flush" /\ log[i - 2] = "x1"
                   /\ log[i - 3] = "x0")
          /\ log[i] = "m0" => (i > 1 /\ log[i - 1] = "recvV")
          /\ log[i] = "m1" =>
                (i > 1 /\ log[i - 1] = "m0"
                   /\ i < Len(log) /\ log[i + 1] = "flush")
    /\ (gpc \in {"loop", "ot_bit", "ot_v", "res_label"} /\ ~werr) =>
          wbuf = << >>
    /\ (mode = "honest" /\ epc = "ot_m" /\ gpc = "ot_v" /\ e2g # << >>) =>
          g2e = << >>

C3_Witness ==
    /\ mode = "honest"
    /\ gpc = "loop"
    /\ Count("m1") = 2
    /\ Len(g2e) = 2
    /\ g2e[2].kind = "m"


OtIdx == 1 .. Len(otWires)
InEvaluatorInputs(w) == w >= N1Size /\ w < N1Size + N2Size

C6_ResultDecoding ==
    /\ Len(rlabels) <= N3Size
    /\ (gpc = "res_send" \/ ReturnedOk) =>
          /\ Len(rlabels) = N3Size
          /\ result < 2 ^ N3Size
          /\ \A i \in 0 .. N3Size - 1 :
                LET wire == garbled.Wires[circ.NumWires - N3Size + i]
                IN  /\ rlabels[i + 1] = wire.Label0 => Bit(result, i) = 0
                    /\ rlabels[i + 1] = wire.Label1 => Bit(result, i) = 1
    /\ ReturnedOk =>
          /\ Count("result") = 1
          /\ log[Len(log) - 1] = "result"
          /\ retVals = Split(circ.N3, result)
          /\ (g2e # << >> /\ ~werr) =>
                /\ g2e[Len(g2e)].kind = "result"
                /\ SetBytes(g2e[Len(g2e)].v) = result
                /\ Cardinality({ k \in 1 .. Len(g2e) :
                                   g2e[k].kind = "result" }) = 1

C6_Witness ==
    /\ mode = "any"
    /\ ReturnedOk
    /\ circ = CircAdd
    /\ result = 2
    /\ Len(g2e) = 1

\* C7: when a label read while serving OP_RESULT is neither label of its
\* output wire the Garbler returns an error and no values, and no result
\* frame is sent, also when earlier labels of the request were decoded.
C7_UnknownLabelIsFatal ==
    (\E i \in 1 .. Len(rlabels) :
        LET wire == garbled.Wires[circ.NumWires - N3Size + (i - 1)]
        IN  rlabels[i] # wire.Label0 /\ rlabels[i] # wire.Label1)
    =>  /\ gpc = "returned"
        /\ retErr = "unknown label"
        /\ retVals = NilValues
        /\ Count("result") = 0
        /\ \A k \in 1 .. Len(g2e) : g2e[k].kind # "result"
        /\ \A k \in 1 .. Len(wbuf) : wbuf[k].kind # "result"

C7_Witness ==
    /\ retErr = "unknown label"
    /\ Len(rlabels) = 2
    /\ result = 1


\* C8: an opcode that is neither OP_OT nor OP_RESULT ends the session:
\* after it the Garbler reads and serves no further opcode.
C8_NothingServedAfterUnknownOpcode ==
    \A i \in LogIdx : log[i] = "recvUnknownOp" => i = Len(log)

GarblerOutcome ==
    IF gpc = "returned"
    THEN \/ /\ retErr = "nil"
            /\ retVals \notin {NoValues, NilValues}
            /\ Len(retVals) = Len(circ.N3)
         \/ /\ retErr \notin {"none", "nil"}
            /\ retVals = NilValues
    ELSE retVals = NoValues /\ retErr = "none"

C10_OneOutcome ==
    [][ /\ GarblerOutcome'
        /\ gpc = "returned" => UNCHANGED << gvars, e2g, log >> ]_vars

C10_Witness ==
    /\ gpc = "returned"
    /\ retErr = "messages"
    /\ retVals = NilValues
    /\ Count("m1") = 1
    /\ e2g = << >>


\* C11: when the peer has closed the stream before the protocol is
\* complete, the Garbler ends with the transport's error and no values.
C11_ClosedStreamAborts ==
    (gpc = "returned" /\ closed) =>
        /\ retErr # "nil"
        /\ retVals = NilValues

GarblerReceiving == gpc \in {"loop", "ot_bit", "ot_v", "res_label"}
GarblerBlocked == GarblerReceiving /\ ~ENABLED GarblerProtocolStep
EvaluatorBlocked == epc # "done" /\ ~ENABLED EvaluatorStep

\* C16: with an Evaluator that follows its sequence over a reliable
\* transport the two parties alternate (unread data in at most one
\* direction), never both wait on a receive, the Garbler's write buffer is
\* empty whenever it is at a receive, and once the circuit is garbled the
\* session eventually ends with the Garbler returning the result.
C16_AlternationAndTermination ==
    /\ [](GarblerReceiving => wbuf = << >>)
    /\ [](~(GarblerBlocked /\ EvaluatorBlocked))
    /\ [](~(g2e # << >> /\ e2g # << >>))
    /\ (gpc # "garble") ~>
          (ReturnedOk /\ retVals = Compute(circ, inputs, einputs))

C16_Witness ==
    /\ mode = "honest"
    /\ circ = CircMix
    /\ ReturnedOk
    /\ epc = "done"
    /\ Count("recvV") = N2Size
    /\ Count("flush") = 2 + 2 * N2Size
    /\ wbuf = << >> /\ g2e = << >> /\ e2g = << >>


\* C14: a non-XOR gate garbled with row reduction transmits three rows;
\* the row of tags (0, 0) would be the all-zero ciphertext; for each of
\* the four input combinations (a, b) an evaluator holding the matching
\* labels recovers the label of op(a, b) on the output wire.
C14_RowReducedGate ==
    gt.pc \in {"garbled", "evaluated"} =>
        LET wa == gt.wires[1]
            wb == gt.wires[2]
            wout == gt.wires[gt.id + 3]
        IN  /\ Len(gt.rows) = 3
            /\ Xor(H(gt.id, TagLabel(wa, 0), TagLabel(wb, 0)),
                   ValueLabel(wout, GateOp(gt.op, TagValue(wa, 0),
                                           TagValue(wb, 0)))) = 0
            /\ gt.pc = "evaluated" =>
                  gt.out = ValueLabel(wout, GateOp(gt.op, gt.a, gt.b))

C14_Witness ==
    /\ gt.pc = "evaluated"
    /\ gt.op = "AND"
    /\ gt.id = 1
    /\ gt.a = 1 /\ gt.b = 1
    /\ Tag(gt.la) = 1 /\ Tag(gt.lb) = 0
    /\ gt.out = gt.wires[4].Label1
    /\ gt.out # gt.wires[4].Label0


\* a block's ID is among the IDs of the blocks of a From list
InFrom(b, o) ==
    \E i \in 1 .. Len(blocks[o].From) :
        blocks[blocks[o].From[i]].ID = blocks[b].ID

\* C17: a Next or Branch link, once set, never changes to a block with
\* another ID, and a call that panics leaves the blocks unchanged; every
\* block is in the From list of its Next and of its Branch; no From list
\* holds two blocks with the same ID.
C17_LinksAndFrom ==
    /\ [](\A b \in BlockIds :
            /\ blocks[b].Next # Nil => InFrom(b, blocks[b].Next)
            /\ blocks[b].Branch # Nil => InFrom(b, blocks[b].Branch)
            /\ \A i, j \in 1 .. Len(blocks[b].From) :
                  blocks[blocks[b].From[i]].ID = blocks[blocks[b].From[j]].ID
                      => i = j)
    /\ [][ /\ \A b \in BlockIds :
                /\ blocks[b].Next # Nil =>
                      /\ blocks'[b].Next # Nil
                      /\ blocks'[blocks'[b].Next].ID
                            = blocks[blocks[b].Next].ID
                /\ blocks[b].Branch # Nil =>
                      /\ blocks'[b].Branch # Nil
                      /\ blocks'[blocks'[b].Branch].ID
                            = blocks[blocks[b].Branch].ID
           /\ call'.op = "panic" => blocks' = blocks ]_vars

C17_Witness ==
    /\ call.op = "panic"
    /\ blocks[1].Next = 2
    /\ blocks[1].Branch = 2
    /\ blocks[2].From = << 1, 3 >>
    /\ blocks[3].Next = 2
    /\ blocks[2].Next = Nil

\* position of a block ID in the order in which Serialize saw the blocks,
\* 0 when it was not seen
SeenPos(id) ==
    IF \E i \in 1 .. Len(ser.seen) : ser.seen[i] = id
    THEN CHOOSE i \in 1 .. Len(ser.seen) : ser.seen[i] = id
    ELSE 0

\* C18: in the code Serialize returns no instruction occurs twice, the
\* instructions of a block are adjacent and in the block's order, every
\* block of a From list was emitted before the block, and only the first
\* step of a block carries the block's name as label.
C18_SerializeOrder ==
    ser.entry # Nil =>
        LET code == ser.code
            Blk(i) == code[i].Instr.blk
        IN  /\ \A i, j \in 1 .. Len(code) :
                  code[i].Instr = code[j].Instr => i = j
            /\ \A i \in 1 .. Len(code) :
                  LET in == code[i].Instr
                  IN  /\ in = blocks[in.blk].Instr[in.n]
                      /\ in.n > 1 =>
                            /\ i > 1
                            /\ code[i - 1].Instr = blocks[in.blk].Instr[in.n - 1]
                      /\ in.n < Len(blocks[in.blk].Instr) =>
                            /\ i < Len(code)
                            /\ code[i + 1].Instr = blocks[in.blk].Instr[in.n + 1]
                      /\ code[i].Label =
                            IF in.n = 1 THEN blocks[in.blk].Name ELSE << >>
                      /\ SeenPos(in.blk) > 0
            /\ \A i, j \in 1 .. Len(code) :
                  i < j => SeenPos(Blk(i)) <= SeenPos(Blk(j))
            /\ \A i, j \in 1 .. Len(ser.seen) :
                  ser.seen[i] = ser.seen[j] => i = j
            /\ \A k \in 1 .. Len(ser.seen) :
                  \A f \in 1 .. Len(blocks[ser.seen[k]].From) :
                     LET p == SeenPos(blocks[blocks[ser.seen[k]].From[f]].ID)
                     IN  p > 0 /\ p < k

C18_Witness ==
    /\ ser.entry = 1
    /\ blocks[1].Branch = 3
    /\ blocks[1].Next = 2
    /\ blocks[2].Next = 3
    /\ ser.seen = << 1, 2, 3 >>
    /\ Len(ser.code) = 3
    /\ Len(blocks[3].Instr) = 2
    /\ ser.code[2].Label = << 3 >>
    /\ ser.code[3].Label = << >>

\* the blocks linked from a block, the blocks reachable from a set of
\* blocks, and graphs without a cycle
Succ(b) == { blocks[b].Next, blocks[b].Branch } \ { Nil }
RECURSIVE ReachFrom(_)
ReachFrom(S) ==
    LET T == S \cup UNION { Succ(b) : b \in S }
    IN  IF T = S THEN S ELSE ReachFrom(T)
Acyclic == \A b \in BlockIds : b \notin ReachFrom(Succ(b))

\* every instruction of the block is in the code Serialize returned
Emitted(b) ==
    /\ SeenPos(blocks[b].ID) > 0
    /\ \A n \in 1 .. Len(blocks[b].Instr) :
          \E i \in 1 .. Len(ser.code) : ser.code[i].Instr = blocks[b].Instr[n]

\* C19 as stated: on a graph without a cycle Serialize emits every block
\* reachable from the entry block.
C19_AllReachableEmitted ==
    (ser.entry # Nil /\ Acyclic) =>
        \A b \in ReachFrom({ser.entry}) : Emitted(b)

\* C19: on a graph without a cycle in which every block of the From list
\* of a reachable block is reachable itself, Serialize emits every block
\* reachable from the entry block.
C19_ReachableEmittedWhenPredsReachable ==
    ( /\ ser.entry # Nil
      /\ Acyclic
      /\ \A b \in ReachFrom({ser.entry}) :
            \A f \in 1 .. Len(blocks[b].From) :
                blocks[b].From[f] \in ReachFrom({ser.entry}) ) =>
        \A b \in ReachFrom({ser.entry}) : Emitted(b)

C19_Witness ==
    /\ ser.entry = 2
    /\ blocks[2].Branch = 1
    /\ blocks[2].Next = 3
    /\ blocks[1].Next = 3
    /\ blocks[3].From = << 2, 1 >>
    /\ ReachFrom({2}) = {1, 2, 3}
    /\ Emitted(1) /\ Emitted(2) /\ Emitted(3)


Innermost(bs, name) ==
    LET named == { i \in 1 .. Len(bs) : bs[i].Name = name }
    IN  bs[CHOOSE i \in named : \A j \in named : bs[j].Scope <= bs[i].Scope]
Binds(bs, name) == \E i \in 1 .. Len(bs) : bs[i].Name = name

PhisOf(bs, k) ==
    { p \in BlockIds \X (1 .. NumSelects * MaxValueCalls + 1) :
        /\ p[2] <= Len(bs[p[1]].Instr)
        /\ bs[p[1]].Instr[p[2]].by = k }

IsResolved(ss, k) == ss[k].Resolved.Type # "Undefined"

\* the variable that stands for the value x once it has been resolved
ValueOf(ss, x) == IF IsRef(x) THEN ss[x.sel].Resolved ELSE x

\* every Select has at most one Phi instruction, and has one exactly when
\* it is resolved: that of its condition, of the values of its True and
\* False and of its Resolved variable, which no other Select has
MemoisedState ==
    \A k \in SelectIds :
       /\ Cardinality(PhisOf(blocks, k)) <= 1
       /\ IsResolved(sels, k) <=> PhisOf(blocks, k) # {}
       /\ IsResolved(sels, k) =>
             /\ \A j \in SelectIds \ {k} :
                   sels[j].Resolved # sels[k].Resolved
             /\ \A p \in PhisOf(blocks, k) :
                   blocks[p[1]].Instr[p[2]] =
                      NewPhiInstr(sels[k].Cond, ValueOf(sels, sels[k].True),
                                  ValueOf(sels, sels[k].False),
                                  sels[k].Resolved, k)

\* what one call of Value does
MemoisedCall ==
    LET k == vcall'.sel
        b == vcall'.block
        made == { j \in SelectIds :
                    ~IsResolved(sels, j) /\ IsResolved(sels', j) }
    IN  /\ vcall'.ret = sels'[k].Resolved
        /\ IsResolved(sels', k)
        /\ \A o \in BlockIds \ {b} : blocks'[o] = blocks[o]
        /\ \A j \in SelectIds :
              IsResolved(sels, j) => sels'[j] = sels[j]
        /\ IF IsResolved(sels, k)
           THEN /\ vcall'.ret = sels[k].Resolved
                /\ blocks' = blocks
                /\ sels' = sels
                /\ gen' = gen
           ELSE /\ k \in made
                /\ gen' = gen + Cardinality(made)
                /\ Len(blocks'[b].Instr) =
                      Len(blocks[b].Instr) + Cardinality(made)
                /\ SubSeq(blocks'[b].Instr, 1, Len(blocks[b].Instr)) =
                      blocks[b].Instr
                /\ blocks'[b].Instr[Len(blocks'[b].Instr)].by = k
                /\ \A j \in made :
                      /\ Cardinality(PhisOf(blocks', j)) = 1
                      /\ sels'[j].Resolved.Name = "%_"
                      /\ sels'[j].Resolved.Type = sels[j].Type
                      /\ sels'[j].Resolved.Anon > gen
                      /\ sels'[j] = [sels[j] EXCEPT
                                       !.Resolved = sels'[j].Resolved]

====
